---- MODULE Spec2Model ----
(***************************************************************************)
(* A model of find_10k.py: the helpers _safe_filename, _unique_path and    *)
(* _normalize_tickers, the lookups get_cik_from_ticker and                 *)
(* get_latest_annual_info, the fetcher download_latest_10k and the batch   *)
(* loop batch_download_10k.                                                *)
(*                                                                         *)
(* A Python str is a sequence of one-character strings, so that splitting, *)
(* trimming, upper-casing, sanitising and path arithmetic are computed and *)
(* not assumed.  The file system is a map from paths to contents plus a    *)
(* set of directories.  The three upstream endpoints are the environment:  *)
(* every request either fails in transport or answers.                     *)
(***************************************************************************)
EXTENDS Integers, Sequences, FiniteSets, TLC

VARIABLES
    arg, res, step,              \* a single helper call: argument, result, position
    tickers, kind, make_subfolder_per_ticker,   \* arguments of batch_download_10k
    tickers_list, idx, results,  \* locals of batch_download_10k
    pc,                          \* position in batch_download_10k / download_latest_10k
    ticker, save_folder, cik10, info, url, filename, out_path, meta_path, content,
    exc,                         \* the exception in flight, NoExc when none
    fs, dirs,                    \* files (path -> content) and directories on disk
    fs0,                         \* the files on disk when the current batch call began
    log,                         \* what the current batch call did, in order
    resp,                        \* what the upstream and the disk answered, per ticker
    fetched                     \* calls of download_latest_10k made by this process

helper_vars == <<arg, res, step>>
batch_vars == <<tickers, kind, make_subfolder_per_ticker, tickers_list, idx, results,
                pc, ticker, save_folder, cik10, info, url, filename, out_path,
                meta_path, content, exc, fs0, log, resp, fetched>>
disk_vars == <<fs, dirs>>
vars == <<helper_vars, batch_vars, disk_vars>>

-----------------------------------------------------------------------------
(* Bounds of the model.                                                    *)

MaxNameLen == 4
MaxTickerStrLen == 4
MaxListLen == 3
MaxFetches == 2
MaxCollisions == 3
MaxFilings == 3

-----------------------------------------------------------------------------
(* Strings.                                                                *)

Strings(A, n) == UNION {[1..k -> A] : k \in 0..n}

Range(f) == {f[i] : i \in DOMAIN f}

\* Characters \s matches and str.strip() removes, as far as the model's alphabets go.
Whitespace == {" ", "\t", "\n", "\r"}

\* The character class of line 14.
Forbidden == {"\\", "/", "*", "?", ":", "\"", "<", ">", "|"}

Digits == <<"0", "1", "2", "3", "4", "5", "6", "7", "8", "9">>

RECURSIVE IntToStr(_)
IntToStr(n) ==
    IF n < 10 THEN <<Digits[n + 1]>>
    ELSE IntToStr(n \div 10) \o <<Digits[(n % 10) + 1]>>

DigitVal(c) == (CHOOSE k \in 1..10 : Digits[k] = c) - 1

RECURSIVE StrToInt(_)
StrToInt(s) ==
    IF s = <<>> THEN 0
    ELSE 10 * StrToInt(SubSeq(s, 1, Len(s) - 1)) + DigitVal(s[Len(s)])

RECURSIVE zfill(_, _)
zfill(s, width) == IF Len(s) >= width THEN s ELSE zfill(<<"0">> \o s, width)

RECURSIVE lstrip(_)
lstrip(s) == IF s # <<>> /\ s[1] \in Whitespace THEN lstrip(Tail(s)) ELSE s

RECURSIVE rstrip(_)
rstrip(s) ==
    IF s # <<>> /\ s[Len(s)] \in Whitespace THEN rstrip(SubSeq(s, 1, Len(s) - 1)) ELSE s

strip(s) == rstrip(lstrip(s))

UpperChar(c) ==
    CASE c = "a" -> "A"
      [] c = "b" -> "B"
      [] c = "z" -> "Z"
      [] OTHER -> c

upper(s) == [i \in 1..Len(s) |-> UpperChar(s[i])]

\* s.replace(old, "") for a one-character old.
RECURSIVE remove_char(_, _)
remove_char(s, old) ==
    IF s = <<>> THEN <<>>
    ELSE IF s[1] = old THEN remove_char(Tail(s), old)
    ELSE <<s[1]>> \o remove_char(Tail(s), old)

\* The greatest index of c in s, 0 when absent (str.rfind, 1-based).
RECURSIVE rfind(_, _)
rfind(s, c) ==
    IF s = <<>> THEN 0
    ELSE IF s[Len(s)] = c THEN Len(s)
    ELSE rfind(SubSeq(s, 1, Len(s) - 1), c)

-----------------------------------------------------------------------------
(* _safe_filename, lines 13-16.                                            *)

\* re.sub(r'[\\/*?:"<>|]', "_", s)
sub_forbidden(s) == [i \in 1..Len(s) |-> IF s[i] \in Forbidden THEN "_" ELSE s[i]]

\* A bug: \s in place of \s+, one space for every whitespace character.
sub_whitespace_each(s) == [i \in 1..Len(s) |-> IF s[i] \in Whitespace THEN " " ELSE s[i]]

\* re.sub(r"\s+", " ", s): every maximal run of whitespace becomes one space.
RECURSIVE sub_whitespace(_)
sub_whitespace(s) ==
    IF s = <<>> THEN <<>>
    ELSE IF s[1] \in Whitespace THEN <<" ">> \o sub_whitespace(lstrip(s))
    ELSE <<s[1]>> \o sub_whitespace(Tail(s))

_safe_filename(s) == strip(sub_whitespace(sub_forbidden(s)))

-----------------------------------------------------------------------------
(* os.path, as the calls of lines 19-25, 96, 108 and 116 use it.           *)

exists(path) == path \in DOMAIN fs \/ path \in dirs

\* posixpath.splitext: the extension starts at the last dot of the last path
\* component, leading dots of that component not counted.
splitext(p) ==
    LET sepIndex == rfind(p, "/")
        dotIndex == rfind(p, ".")
    IN  IF dotIndex > sepIndex
           /\ \E k \in (sepIndex + 1)..(dotIndex - 1) : p[k] # "."
        THEN <<SubSeq(p, 1, dotIndex - 1), SubSeq(p, dotIndex, Len(p))>>
        ELSE <<p, <<>>>>

\* posixpath.join of two parts.
join(a, b) ==
    IF b # <<>> /\ b[1] = "/" THEN b
    ELSE IF a = <<>> \/ a[Len(a)] = "/" THEN a \o b
    ELSE a \o <<"/">> \o b

Home == <<"/", "h">>

\* posixpath.expanduser for a path that is "~" or starts with "~/".
expanduser(p) ==
    IF p # <<>> /\ p[1] = "~" /\ (Len(p) = 1 \/ p[2] = "/")
    THEN Home \o Tail(p)
    ELSE p

\* The parent directories os.makedirs creates along with path.
Ancestors(path) ==
    {SubSeq(path, 1, k - 1) : k \in {j \in 2..Len(path) : path[j] = "/"}} \cup {path}

-----------------------------------------------------------------------------
(* _unique_path, lines 18-27.                                              *)

\* A bug: the numbered candidate is returned without the existence check.
unique_path_unchecked(base, ext, i) == base \o <<"_">> \o IntToStr(i) \o ext

\* The loop of lines 23-27, entered with counter i.
RECURSIVE unique_path_loop(_, _, _)
unique_path_loop(base, ext, i) ==
    LET cand == base \o <<"_">> \o IntToStr(i) \o ext
    IN  IF ~exists(cand) THEN cand ELSE unique_path_loop(base, ext, i + 1)

\* A bug: the path is taken as it is, whether or not a file is there.
unique_path_as_given(path) == path

_unique_path(path) ==
    IF ~exists(path) THEN path
    ELSE LET se == splitext(path) IN unique_path_loop(se[1], se[2], 1)

-----------------------------------------------------------------------------
(* _normalize_tickers, lines 29-44.  The argument is a str,                *)
(* [tag |-> "str", val |-> s], or an iterable of str,                      *)
(* [tag |-> "list", val |-> <<s1, ..., sn>>].                              *)

Delims == Whitespace \cup {","}

RECURSIVE skip_delims(_)
skip_delims(s) == IF s # <<>> /\ s[1] \in Delims THEN skip_delims(Tail(s)) ELSE s

\* re.split(r"[,\s]+", s): the pieces between the maximal runs of delimiters,
\* empty pieces at the ends included; cur is the piece being read.
RECURSIVE re_split(_, _)
re_split(s, cur) ==
    IF s = <<>> THEN <<cur>>
    ELSE IF s[1] \in Delims THEN <<cur>> \o re_split(skip_delims(s), <<>>)
    ELSE re_split(Tail(s), Append(cur, s[1]))

NonEmpty(t) == t # <<>>

\* A bug: duplicates are compared before upper-casing.
dedup_upper_case_sensitive(tickers_l) ==
    LET RECURSIVE go(_, _, _)
        go(l, seen, out) ==
            IF l = <<>> THEN out
            ELSE IF l[1] \notin seen
                 THEN go(Tail(l), seen \cup {l[1]}, Append(out, upper(l[1])))
                 ELSE go(Tail(l), seen, out)
    IN  go(tickers_l, {}, <<>>)

\* Lines 37-44: upper-case, keep the first occurrence.
dedup_upper(tickers_l) ==
    LET RECURSIVE go(_, _, _)
        go(l, seen, out) ==
            IF l = <<>> THEN out
            ELSE LET u == upper(l[1])
                 IN  IF u \notin seen
                     THEN go(Tail(l), seen \cup {u}, Append(out, u))
                     ELSE go(Tail(l), seen, out)
    IN  go(tickers_l, {}, <<>>)

_normalize_tickers(t) ==
    LET tickers_l ==
            IF t.tag = "str"
            THEN SelectSeq(re_split(strip(t.val), <<>>), NonEmpty)
            ELSE SelectSeq([i \in 1..Len(t.val) |-> strip(t.val[i])], NonEmpty)
    IN  dedup_upper(tickers_l)

-----------------------------------------------------------------------------
(* Exceptions: a record of the Python type and the message str(e) gives.   *)

NoExc == [type |-> "none", msg |-> <<>>]

ValueError(m) == [type |-> "ValueError", msg |-> m]
HTTPError(m) == [type |-> "HTTPError", msg |-> m]
OSError(m) == [type |-> "OSError", msg |-> m]
IndexError == [type |-> "IndexError", msg |-> <<"list index out of range">>]

\* str(e)
str_exc(e) == e.msg

-----------------------------------------------------------------------------
(* get_latest_annual_info, lines 64-83, on the JSON the filing-history     *)
(* endpoint returned: sub = [name, form, accessionNumber, primaryDocument, *)
(* filingDate], the four arrays of filings.recent.                         *)

preferred_forms_default == <<"10-K", "20-F", "40-F", "10-K/A", "20-F/A">>

\* Line 72-73: the first index at or after i whose form is want, 0 when none.
RECURSIVE scan_forms(_, _, _)
scan_forms(forms, want, i) ==
    IF i > Len(forms) THEN 0
    ELSE IF forms[i] = want THEN i
    ELSE scan_forms(forms, want, i + 1)

\* A bug: the loops nested the other way round, recency before preference.
RECURSIVE select_filing_recency_first(_, _, _)
select_filing_recency_first(forms, preferred_forms, k) ==
    IF k > Len(forms) THEN <<0, "">>
    ELSE IF forms[k] \in Range(preferred_forms) THEN <<k, forms[k]>>
    ELSE select_filing_recency_first(forms, preferred_forms, k + 1)

\* Lines 71-73: <<index, form>> of the filing chosen, <<0, "">> when none;
\* k is the position in preferred_forms.
RECURSIVE select_filing(_, _, _)
select_filing(forms, preferred_forms, k) ==
    IF k > Len(preferred_forms) THEN <<0, "">>
    ELSE LET i == scan_forms(forms, preferred_forms[k], 1)
         IN  IF i # 0 THEN <<i, preferred_forms[k]>>
             ELSE select_filing(forms, preferred_forms, k + 1)

get_latest_annual_info(sub, cik, preferred_forms) ==
    LET sel == select_filing(sub.form, preferred_forms, 1)
        i == sel[1]
    IN  IF i = 0
        THEN [ok |-> FALSE,
              exc |-> ValueError(<<"No annual filing found for CIK ">> \o cik)]
        ELSE IF i > Len(sub.accessionNumber) \/ i > Len(sub.primaryDocument)
                \/ i > Len(sub.filingDate)
        THEN [ok |-> FALSE, exc |-> IndexError]
        ELSE [ok |-> TRUE,
              val |-> [companyName |-> sub.name,
                       cik10 |-> cik,
                       form |-> sel[2],
                       accession |-> sub.accessionNumber[i],
                       primaryDocument |-> sub.primaryDocument[i],
                       filingDate |-> sub.filingDate[i]]]

-----------------------------------------------------------------------------
(* The batch and the disk while a single helper is being called.           *)

EmptyMap == [x \in {} |-> x]

NoCall ==
    /\ tickers = [tag |-> "list", val |-> <<>>]
    /\ tickers_list = <<>>
    /\ idx = 1
    /\ results = [saved |-> EmptyMap, failed |-> EmptyMap]
    /\ pc = "idle"
    /\ ticker = <<>>
    /\ save_folder = <<>>
    /\ cik10 = <<>>
    /\ info = <<>>
    /\ url = <<>>
    /\ filename = <<>>
    /\ out_path = <<>>
    /\ meta_path = <<>>
    /\ content = <<>>
    /\ exc = NoExc
    /\ log = <<>>
    /\ resp = EmptyMap
    /\ fetched = 0

BatchIdle ==
    /\ NoCall
    /\ kind = "primary_html"
    /\ make_subfolder_per_ticker = TRUE
    /\ fs0 = EmptyMap

-----------------------------------------------------------------------------
(* _safe_filename called on a name, then on its own result.                *)

NameAlphabet == {"a", "/", ":", " ", "\t", "_"}

InitSafe ==
    /\ arg \in Strings(NameAlphabet, MaxNameLen)
    /\ res = <<>>
    /\ step = "call"
    /\ BatchIdle
    /\ fs = EmptyMap
    /\ dirs = {}

SafeCall ==
    /\ step = "call"
    /\ res' = <<_safe_filename(arg)>>
    /\ step' = "once"
    /\ UNCHANGED <<arg, batch_vars, disk_vars>>

SafeAgain ==
    /\ step = "once"
    /\ res' = Append(res, _safe_filename(res[1]))
    /\ step' = "twice"
    /\ UNCHANGED <<arg, batch_vars, disk_vars>>

NextSafe == SafeCall \/ SafeAgain

SpecSafe == InitSafe /\ [][NextSafe]_vars

\* C7: _safe_filename(_safe_filename(s)) = _safe_filename(s), and the result holds
\* no forbidden character, no two adjacent whitespace characters and no whitespace
\* at either end.
C7_SafeFilenameIdempotent ==
    /\ step = "twice" => res[2] = res[1]
    /\ step \in {"once", "twice"} =>
         LET o == res[1]
         IN  /\ \A i \in 1..Len(o) : o[i] \notin Forbidden
             /\ \A i \in 1..(Len(o) - 1) : ~(o[i] \in Whitespace /\ o[i + 1] \in Whitespace)
             /\ o # <<>> => (o[1] \notin Whitespace /\ o[Len(o)] \notin Whitespace)

\* A name with a leading tab, a forbidden character and a run of two whitespace
\* characters has been sanitised twice.
C7_Witness ==
    /\ step = "twice"
    /\ arg = <<"\t", "/", " ", "\t">>
    /\ res[1] = <<"_">>

-----------------------------------------------------------------------------
(* _normalize_tickers called on a str or on a list of str.                 *)

TickerAlphabet == {"a", "A", "b", ",", " "}

TickerElements ==
    {<<"a">>, <<"A">>, <<"b">>, <<" ", "a">>, <<"b", " ">>, <<>>, <<" ">>, <<"a", ",", "b">>}

InitNorm ==
    /\ arg \in {[tag |-> "str", val |-> s] : s \in Strings(TickerAlphabet, MaxTickerStrLen)}
          \cup {[tag |-> "list", val |-> l] : l \in Strings(TickerElements, MaxListLen)}
    /\ res = <<>>
    /\ step = "call"
    /\ BatchIdle
    /\ fs = EmptyMap
    /\ dirs = {}

NormCall ==
    /\ step = "call"
    /\ res' = _normalize_tickers(arg)
    /\ step' = "done"
    /\ UNCHANGED <<arg, batch_vars, disk_vars>>

NextNorm == NormCall

SpecNorm == InitNorm /\ [][NextNorm]_vars

\* The tokens of an input, each with the position of its occurrence: for a str the
\* maximal runs of characters that are neither comma nor whitespace, by their first
\* character's index; for a list the elements without their surrounding whitespace,
\* by their index.
TokensAt(t) ==
    IF t.tag = "str"
    THEN LET s == t.val
         IN  {<<i, SubSeq(s, i, j)>> : <<i, j>> \in
                {ij \in (1..Len(s)) \X (1..Len(s)) :
                    /\ ij[1] <= ij[2]
                    /\ \A k \in ij[1]..ij[2] : s[k] \notin Delims
                    /\ (ij[1] = 1 \/ s[ij[1] - 1] \in Delims)
                    /\ (ij[2] = Len(s) \/ s[ij[2] + 1] \in Delims)}}
    ELSE LET l == t.val
             Inner(e) == {k \in 1..Len(e) : e[k] \notin Whitespace}
             Min(S) == CHOOSE m \in S : \A n \in S : m <= n
             Max(S) == CHOOSE m \in S : \A n \in S : m >= n
         IN  {<<i, SubSeq(l[i], Min(Inner(l[i])), Max(Inner(l[i])))>> :
                i \in {k \in 1..Len(l) : Inner(l[k]) # {}}}

FirstSeen(t, u) ==
    LET at == {p[1] : p \in {q \in TokensAt(t) : upper(q[2]) = u}}
    IN  CHOOSE m \in at : \A n \in at : m <= n

\* C5: the output holds each distinct case-insensitive token exactly once,
\* upper-cased, in the order of first occurrence, and no empty token.
C5_NormalizeDedupOrdered ==
    step = "done" =>
        /\ Range(res) = {upper(p[2]) : p \in TokensAt(arg)}
        /\ \A i, j \in 1..Len(res) : i # j => res[i] # res[j]
        /\ \A i \in 1..Len(res) : res[i] # <<>> /\ upper(res[i]) = res[i]
        /\ \A i, j \in 1..Len(res) : i < j => FirstSeen(arg, res[i]) < FirstSeen(arg, res[j])

\* "b, a A" holds a before its duplicate A and after b.
C5_Witness ==
    /\ step = "done"
    /\ arg = [tag |-> "str", val |-> <<"b", ",", "a", " ">>]
    /\ res = <<<<"B">>, <<"A">>>>

-----------------------------------------------------------------------------
(* _unique_path called on a path of a disk that holds any of the path, its *)
(* numbered variants and an unrelated file, each as a file or a directory. *)

CandidatePaths ==
    {<<"d", "/", "f", ".", "x">>, <<"d", "/", "f">>, <<"d", ".", "e", "/", "f">>,
     <<"d", "/", ".", "x">>}

Numbered(path, i) ==
    LET se == splitext(path) IN se[1] \o <<"_">> \o IntToStr(i) \o se[2]

InitUnique ==
    /\ arg \in CandidatePaths
    /\ \E files \in SUBSET ({arg} \cup {Numbered(arg, i) : i \in 1..MaxCollisions}) :
         /\ fs = [p \in files |-> <<"old">>]
         /\ dirs \in SUBSET (({arg} \cup {Numbered(arg, i) : i \in 1..MaxCollisions}) \ files)
    /\ res = <<>>
    /\ step = "call"
    /\ BatchIdle

UniqueCall ==
    /\ step = "call"
    /\ res' = _unique_path(arg)
    /\ step' = "done"
    /\ UNCHANGED <<arg, batch_vars, disk_vars>>

NextUnique == UniqueCall

SpecUnique == InitUnique /\ [][NextUnique]_vars

\* C6: the path returned does not exist; it is the argument when that is free, and
\* otherwise base_N.ext for the least N >= 1 whose path is free (the argument and
\* base_1.ext .. base_(N-1).ext all exist); the call changes nothing on disk.
C6_UniquePathFree ==
    /\ [](step = "done" =>
            /\ ~exists(res)
            /\ ~exists(arg) => res = arg
            /\ exists(arg) =>
                 \E N \in 1..(MaxCollisions + 1) :
                    /\ res = Numbered(arg, N)
                    /\ \A i \in 1..(N - 1) : exists(Numbered(arg, i)))
    /\ [][fs' = fs /\ dirs' = dirs]_vars

\* d/f.x, d/f_1.x and d/f_2.x exist: two numbered collisions, the answer is d/f_3.x.
C6_Witness ==
    /\ step = "done"
    /\ arg = <<"d", "/", "f", ".", "x">>
    /\ exists(arg) /\ exists(Numbered(arg, 1)) /\ exists(Numbered(arg, 2))
    /\ res = <<"d", "/", "f", "_", "3", ".", "x">>

-----------------------------------------------------------------------------
(* get_latest_annual_info's selection on a filing history of up to         *)
(* MaxFilings filings, most recent first, under several preference lists.  *)

FormTypes == {"10-K", "10-K/A", "20-F", "8-K"}

PreferenceLists ==
    {preferred_forms_default, <<"10-K/A", "10-K">>, <<"20-F", "10-K">>, <<"8-K">>, <<>>}

AccessionOf(i) == <<"0", "-", Digits[i + 1]>>
DocOf(i) == <<"k", Digits[i + 1], ".", "h">>
DateOf(i) == <<"2", Digits[i + 1]>>

\* The filing-history JSON for the given forms; the accessionNumber array is n long
\* (the arrays are parallel unless the upstream sends a short one).
Submission(forms, n) ==
    [name |-> <<"N">>,
     form |-> forms,
     accessionNumber |-> [i \in 1..n |-> AccessionOf(i)],
     primaryDocument |-> [i \in 1..Len(forms) |-> DocOf(i)],
     filingDate |-> [i \in 1..Len(forms) |-> DateOf(i)]]

Cik10s == {zfill(IntToStr(7), 10)}

InitLocator ==
    /\ \E forms \in Strings(FormTypes, MaxFilings) :
       \E n \in {Len(forms), Len(forms) - 1} \cap Nat :
       \E prefs \in PreferenceLists :
       \E cik \in Cik10s :
          arg = [sub |-> Submission(forms, n), cik10 |-> cik, preferred_forms |-> prefs]
    /\ res = <<>>
    /\ step = "call"
    /\ BatchIdle
    /\ fs = EmptyMap
    /\ dirs = {}

LocatorCall ==
    /\ step = "call"
    /\ res' = get_latest_annual_info(arg.sub, arg.cik10, arg.preferred_forms)
    /\ step' = "done"
    /\ UNCHANGED <<arg, batch_vars, disk_vars>>

NextLocator == LocatorCall

SpecLocator == InitLocator /\ [][NextLocator]_vars

Least(S) == CHOOSE m \in S : \A n \in S : m <= n

\* C4: preference order first, recency second: the entry returned is the most
\* recent one whose form is the earliest form of the preference list that occurs in
\* the history, its accession, primaryDocument and filingDate all taken at that one
\* index; the call fails with the no-annual-filing error exactly when no preferred
\* form occurs.
C4_PreferenceBeforeRecency ==
    step = "done" =>
        LET forms == arg.sub.form
            prefs == arg.preferred_forms
            present == {k \in 1..Len(prefs) : \E i \in 1..Len(forms) : forms[i] = prefs[k]}
        IN  IF present = {}
            THEN ~res.ok /\ res.exc.type = "ValueError"
            ELSE LET want == prefs[Least(present)]
                     i == Least({j \in 1..Len(forms) : forms[j] = want})
                 IN  IF res.ok
                     THEN /\ res.val.form = want
                          /\ res.val.accession = AccessionOf(i)
                          /\ res.val.primaryDocument = DocOf(i)
                          /\ res.val.filingDate = DateOf(i)
                          /\ res.val.cik10 = arg.cik10
                     ELSE res.exc = IndexError /\ i > Len(arg.sub.accessionNumber)

\* History [10-K/A (newest), 10-K (older)] under the default preference list: the
\* older 10-K is returned.
C4_Witness ==
    /\ step = "done"
    /\ arg.sub.form = <<"10-K/A", "10-K">>
    /\ arg.preferred_forms = preferred_forms_default
    /\ res.ok
    /\ res.val.form = "10-K"
    /\ res.val.accession = AccessionOf(2)
    /\ res.val.filingDate = DateOf(2)

-----------------------------------------------------------------------------
(* The upstream service, as the three endpoints answer when they answer.   *)

\* company_tickers.json: rows of ticker and cik_str, in the order of data.items().
Registry ==
    <<[ticker |-> <<"A">>, cik_str |-> 7], [ticker |-> <<"b">>, cik_str |-> 42]>>

\* Lines 52-56 on the registry JSON.
RECURSIVE scan_registry(_, _, _)
scan_registry(data, t, k) ==
    IF k > Len(data) THEN 0
    ELSE IF upper(data[k].ticker) = t THEN k
    ELSE scan_registry(data, t, k + 1)

get_cik_from_ticker(data, tk) ==
    LET k == scan_registry(data, upper(strip(tk)), 1)
    IN  IF k # 0
        THEN [ok |-> TRUE, val |-> zfill(IntToStr(data[k].cik_str), 10)]
        ELSE [ok |-> FALSE,
              exc |-> ValueError(<<"Ticker not found in SEC mapping: ">> \o tk)]

\* Filing histories the filing-history endpoint may answer with: an amendment filed
\* after the original, a foreign annual report whose primary document has no
\* extension, and a history without any annual form.
SubAmended ==
    [name |-> <<"N">>,
     form |-> <<"10-K/A", "10-K">>,
     accessionNumber |-> <<<<"0", "-", "1">>, <<"0", "-", "2">>>>,
     primaryDocument |-> <<<<"a", ".", "h">>, <<"k", ".", "h">>>>,
     filingDate |-> <<<<"2", "4">>, <<"2", "3">>>>]

SubForeign ==
    [name |-> <<"F">>,
     form |-> <<"8-K", "20-F">>,
     accessionNumber |-> <<<<"0", "-", "3">>, <<"0", "-", "4">>>>,
     primaryDocument |-> <<<<"e">>, <<"f">>>>,
     filingDate |-> <<<<"2", "4">>, <<"2", "3">>>>]

SubNoAnnual ==
    [name |-> <<"N">>,
     form |-> <<"8-K">>,
     accessionNumber |-> <<<<"0", "-", "5">>>>,
     primaryDocument |-> <<<<"e", ".", "h">>>>,
     filingDate |-> <<<<"2", "4">>>>]

Subs == {SubAmended, SubForeign, SubNoAnnual}

-----------------------------------------------------------------------------
(* download_latest_10k, lines 85-128, and batch_download_10k, 130-160.     *)

Kinds == {"primary_html", "full_submission_zip", "pdf"}

\* The save_folder argument.
SaveFolder == <<"S">>

Lit10K == <<"_", "1", "0", "-", "K", "_">>
LitMeta == <<"_", "m", "e", "t", "a", ".", "j", "s", "o", "n">>
LitHtml == <<".", "h", "t", "m", "l">>
LitZip == <<".", "z", "i", "p">>
LitArchive == <<"https://www.sec.gov/Archives/edgar/data/">>

\* Lines 94-96.
resolve_folder(folder, tk, subfolder) ==
    IF subfolder THEN join(expanduser(folder), tk) ELSE expanduser(folder)

\* Lines 102-114: the url and the file name for a kind, or the ValueError.
select_target(tk, cik, inf, k) ==
    LET accession_no_dashes == remove_char(inf.accession, "-")
        cik_no_zeros == IntToStr(StrToInt(cik))
        base_dir == LitArchive \o cik_no_zeros \o <<"/">> \o accession_no_dashes \o <<"/">>
        ext0 == splitext(inf.primaryDocument)[2]
        ext == IF ext0 # <<>> THEN ext0 ELSE LitHtml
    IN  IF k = "primary_html"
        THEN [ok |-> TRUE,
              url |-> base_dir \o inf.primaryDocument,
              filename |-> _safe_filename(tk \o Lit10K \o inf.filingDate \o ext)]
        ELSE IF k = "full_submission_zip"
        THEN [ok |-> TRUE,
              url |-> base_dir \o accession_no_dashes \o LitZip,
              filename |-> _safe_filename(tk \o Lit10K \o inf.filingDate \o LitZip)]
        ELSE [ok |-> FALSE,
              exc |-> ValueError(<<"kind must be 'primary_html' or 'full_submission_zip'">>)]

\* Line 124: the file name of the metadata sidecar.
meta_filename(tk, inf) == _safe_filename(tk \o Lit10K \o inf.filingDate \o LitMeta)

\* r.content of the document archive for a url.
Document(u) == <<"doc", u>>

\* json.dump(info, ...)
MetaJson(inf) == <<"meta", inf>>

Cur == tickers_list[idx]

Event(ev, path) == [t |-> Cur, ev |-> ev, path |-> path]

Logged(evs) == log' = log \o evs

\* An answer of the upstream or of the disk: the request or the disk operation
\* succeeded, with the data it gave, or failed.
Ok(data) == [ok |-> TRUE, data |-> data]
Fail == [ok |-> FALSE, data |-> <<>>]

Answered(a) ==
    resp' = [t \in DOMAIN resp \cup {Cur} |->
                IF t = Cur
                THEN (IF Cur \in DOMAIN resp THEN resp[Cur] ELSE <<>>) \o <<a>>
                ELSE resp[t]]

\* A map with key k set to value v (d[k] = v).
Put(d, k, v) == [x \in DOMAIN d \cup {k} |-> IF x = k THEN v ELSE d[x]]

\* The locals of download_latest_10k are gone once it returns or raises.
FrameDropped ==
    /\ ticker' = <<>>
    /\ save_folder' = <<>>
    /\ cik10' = <<>>
    /\ info' = <<>>
    /\ url' = <<>>
    /\ filename' = <<>>
    /\ out_path' = <<>>
    /\ meta_path' = <<>>
    /\ content' = <<>>

frame_vars == <<ticker, save_folder, cik10, info, url, filename, out_path, meta_path, content>>
args_vars == <<tickers, kind, make_subfolder_per_ticker>>

\* A bug: the exception leaves the batch call.
Raise(e) ==
    /\ exc' = e
    /\ pc' = "done"

\* raise e inside download_latest_10k: control passes to line 157.
Raised(e) ==
    /\ exc' = e
    /\ pc' = "raised"

\* Lines 144-146: the call of batch_download_10k.
BatchCall(t) ==
    /\ pc \in {"idle", "done"}
    /\ fetched + Len(_normalize_tickers(t)) <= MaxFetches
    /\ tickers' = t
    /\ tickers_list' = _normalize_tickers(t)
    /\ results' = [saved |-> EmptyMap, failed |-> EmptyMap]
    /\ idx' = 1
    /\ pc' = "loop"
    /\ fs0' = fs
    /\ log' = <<>>
    /\ resp' = EmptyMap
    /\ exc' = NoExc
    /\ UNCHANGED <<helper_vars, kind, make_subfolder_per_ticker, frame_vars, disk_vars,
                   fetched>>

\* Lines 147-149 and 92-97: the next ticker enters download_latest_10k, which
\* resolves and creates its folder.
EnterOk ==
    /\ pc = "loop"
    /\ idx <= Len(tickers_list)
    /\ LET tk == upper(strip(Cur))
           folder == resolve_folder(SaveFolder, tk, make_subfolder_per_ticker)
       IN  /\ Ancestors(folder) \cap DOMAIN fs = {}
           /\ ticker' = tk
           /\ save_folder' = folder
           /\ dirs' = dirs \cup Ancestors(folder)
    /\ pc' = "get_cik"
    /\ fetched' = fetched + 1
    /\ Logged(<<Event("makedirs", <<>>)>>)
    /\ Answered(Ok(<<>>))
    /\ UNCHANGED <<helper_vars, args_vars, tickers_list, idx, results, cik10, info, url,
                   filename, out_path, meta_path, content, exc, fs, fs0>>

\* os.makedirs fails.
EnterFail ==
    /\ pc = "loop"
    /\ idx <= Len(tickers_list)
    /\ ticker' = upper(strip(Cur))
    /\ save_folder' = resolve_folder(SaveFolder, ticker', make_subfolder_per_ticker)
    /\ Raised(OSError(<<"makedirs: ">> \o save_folder'))
    /\ fetched' = fetched + 1
    /\ Logged(<<Event("makedirs", <<>>)>>)
    /\ Answered(Fail)
    /\ UNCHANGED <<helper_vars, args_vars, tickers_list, idx, results, cik10, info, url,
                   filename, out_path, meta_path, content, disk_vars, fs0>>

\* Line 99 (46-56): the registry answers.
GetCikOk ==
    /\ pc = "get_cik"
    /\ LET r == get_cik_from_ticker(Registry, ticker)
       IN  IF r.ok
           THEN cik10' = r.val /\ pc' = "get_info" /\ exc' = exc
           ELSE cik10' = cik10 /\ Raised(r.exc)
    /\ Logged(<<Event("req_registry", <<>>)>>)
    /\ Answered(Ok(<<>>))
    /\ UNCHANGED <<helper_vars, args_vars, tickers_list, idx, results, ticker, save_folder,
                   info, url, filename, out_path, meta_path, content, disk_vars, fs0, fetched>>

\* A bug: a failed registry request is made again.
GetCikFail_retry ==
    /\ pc = "get_cik"
    /\ Logged(<<Event("req_registry", <<>>)>>)
    /\ Answered(Fail)
    /\ UNCHANGED <<helper_vars, args_vars, tickers_list, idx, results, pc, frame_vars, exc,
                   disk_vars, fs0, fetched>>

\* Lines 48-49: the registry request fails.
GetCikFail ==
    /\ pc = "get_cik"
    /\ Raised(HTTPError(<<"registry">>))
    /\ Logged(<<Event("req_registry", <<>>)>>)
    /\ Answered(Fail)
    /\ UNCHANGED <<helper_vars, args_vars, tickers_list, idx, results, frame_vars,
                   disk_vars, fs0, fetched>>

\* Line 100 (58-83): the filing-history endpoint answers with sub.
GetInfoOk(sub) ==
    /\ pc = "get_info"
    /\ LET r == get_latest_annual_info(sub, cik10, preferred_forms_default)
       IN  IF r.ok
           THEN info' = r.val /\ pc' = "select" /\ exc' = exc
           ELSE info' = info /\ Raised(r.exc)
    /\ Logged(<<Event("req_history", <<>>)>>)
    /\ Answered(Ok(sub))
    /\ UNCHANGED <<helper_vars, args_vars, tickers_list, idx, results, ticker, save_folder,
                   cik10, url, filename, out_path, meta_path, content, disk_vars, fs0, fetched>>

\* Lines 60-61: the filing-history request fails.
GetInfoFail ==
    /\ pc = "get_info"
    /\ Raised(HTTPError(<<"submissions">>))
    /\ Logged(<<Event("req_history", <<>>)>>)
    /\ Answered(Fail)
    /\ UNCHANGED <<helper_vars, args_vars, tickers_list, idx, results, frame_vars,
                   disk_vars, fs0, fetched>>

\* Lines 102-116: the kind is looked at, the document's path is chosen.
SelectTarget ==
    /\ pc = "select"
    /\ LET r == select_target(ticker, cik10, info, kind)
       IN  IF r.ok
           THEN /\ url' = r.url
                /\ filename' = r.filename
                /\ out_path' = _unique_path(join(save_folder, r.filename))
                /\ pc' = "download"
                /\ exc' = exc
           ELSE /\ Raised(r.exc)
                /\ UNCHANGED <<url, filename, out_path>>
    /\ UNCHANGED <<helper_vars, args_vars, tickers_list, idx, results, ticker, save_folder,
                   cik10, info, meta_path, content, disk_vars, fs0, log, resp, fetched>>

\* Lines 118-120: the delay, then the document archive answers.
DownloadOk ==
    /\ pc = "download"
    /\ content' = Document(url)
    /\ pc' = "write_doc"
    /\ Logged(<<Event("sleep", <<>>), Event("req_download", <<>>)>>)
    /\ Answered(Ok(<<>>))
    /\ UNCHANGED <<helper_vars, args_vars, tickers_list, idx, results, ticker, save_folder,
                   cik10, info, url, filename, out_path, meta_path, exc, disk_vars, fs0,
                   fetched>>

\* Lines 118-120: the delay, then the download fails.
DownloadFail ==
    /\ pc = "download"
    /\ Raised(HTTPError(<<"archive">>))
    /\ Logged(<<Event("sleep", <<>>), Event("req_download", <<>>)>>)
    /\ Answered(Fail)
    /\ UNCHANGED <<helper_vars, args_vars, tickers_list, idx, results, frame_vars,
                   disk_vars, fs0, fetched>>

\* Lines 121-122: the document is written.
WriteDocOk ==
    /\ pc = "write_doc"
    /\ fs' = Put(fs, out_path, content)
    /\ pc' = "write_meta"
    /\ Logged(<<Event("write_doc", out_path)>>)
    /\ Answered(Ok(<<>>))
    /\ UNCHANGED <<helper_vars, args_vars, tickers_list, idx, results, frame_vars, exc,
                   dirs, fs0, fetched>>

\* Line 121: open fails.
WriteDocFail ==
    /\ pc = "write_doc"
    /\ Raised(OSError(<<"open: ">> \o out_path))
    /\ Answered(Fail)
    /\ UNCHANGED <<helper_vars, args_vars, tickers_list, idx, results, frame_vars,
                   disk_vars, fs0, log, fetched>>

\* Lines 124-126: the sidecar's path is chosen and the sidecar written.
WriteMetaOk ==
    /\ pc = "write_meta"
    /\ meta_path' = _unique_path(join(save_folder, meta_filename(ticker, info)))
    /\ fs' = Put(fs, meta_path', MetaJson(info))
    /\ pc' = "return"
    /\ Logged(<<Event("write_meta", meta_path')>>)
    /\ Answered(Ok(<<>>))
    /\ UNCHANGED <<helper_vars, args_vars, tickers_list, idx, results, ticker, save_folder,
                   cik10, info, url, filename, out_path, content, exc, dirs, fs0, fetched>>

\* Lines 124-125: the sidecar's path is chosen, open fails.
WriteMetaFail ==
    /\ pc = "write_meta"
    /\ meta_path' = _unique_path(join(save_folder, meta_filename(ticker, info)))
    /\ Raised(OSError(<<"open: ">> \o meta_path'))
    /\ Answered(Fail)
    /\ UNCHANGED <<helper_vars, args_vars, tickers_list, idx, results, ticker, save_folder,
                   cik10, info, url, filename, out_path, content, disk_vars, fs0, log,
                   fetched>>

\* A bug: the path returned is the sidecar's.
Return_meta_path ==
    /\ pc = "return"
    /\ results' = [results EXCEPT !.saved = Put(results.saved, Cur, meta_path)]
    /\ idx' = idx + 1
    /\ pc' = "loop"
    /\ FrameDropped
    /\ Logged(<<Event("return", meta_path)>>)
    /\ UNCHANGED <<helper_vars, args_vars, tickers_list, exc, disk_vars, fs0, resp, fetched>>

\* Lines 128 and 155-156: download_latest_10k returns out_path, recorded as saved.
Return ==
    /\ pc = "return"
    /\ results' = [results EXCEPT !.saved = Put(results.saved, Cur, out_path)]
    /\ idx' = idx + 1
    /\ pc' = "loop"
    /\ FrameDropped
    /\ Logged(<<Event("return", out_path)>>)
    /\ UNCHANGED <<helper_vars, args_vars, tickers_list, exc, disk_vars, fs0, resp, fetched>>

\* A bug: the handler prints the failure and does not record it.
Except_unrecorded ==
    /\ pc = "raised"
    /\ idx' = idx + 1
    /\ pc' = "loop"
    /\ exc' = NoExc
    /\ FrameDropped
    /\ Logged(<<Event("raise", <<>>)>>)
    /\ UNCHANGED <<helper_vars, args_vars, tickers_list, results, disk_vars, fs0, resp,
                   fetched>>

\* Lines 157-159: the exception is caught and recorded as failed.
Except ==
    /\ pc = "raised"
    /\ results' = [results EXCEPT !.failed = Put(results.failed, Cur, str_exc(exc))]
    /\ idx' = idx + 1
    /\ pc' = "loop"
    /\ exc' = NoExc
    /\ FrameDropped
    /\ Logged(<<Event("raise", <<>>)>>)
    /\ UNCHANGED <<helper_vars, args_vars, tickers_list, disk_vars, fs0, resp, fetched>>

\* Line 160: the loop is over, results is returned.
BatchReturn ==
    /\ pc = "loop"
    /\ idx > Len(tickers_list)
    /\ pc' = "done"
    /\ UNCHANGED <<helper_vars, args_vars, tickers_list, idx, results, frame_vars, exc,
                   disk_vars, fs0, log, resp, fetched>>

\* The tickers arguments tried: lists of up to MaxFetches different strings among
\* these, and a delimited string that holds a ticker twice.
TickerArgs == {<<"A">>, <<"b">>, <<"z">>}

BatchInputs ==
    {[tag |-> "list", val |-> l] :
        l \in {x \in Strings(TickerArgs, MaxFetches) : Cardinality(Range(x)) = Len(x)}}
    \cup {[tag |-> "str", val |-> <<"a", ",", " ", "A">>]}

\* Disks the process may start on: empty, or holding the files of an earlier run.
InitialDisks ==
    {EmptyMap,
     [p \in {<<"S", "/", "A", "/", "A">> \o Lit10K \o <<"2", "3", ".", "h">>,
             <<"S", "/", "A", "/", "A">> \o Lit10K \o <<"2", "3">> \o LitMeta}
        |-> <<"old">>]}

\* One run of the process: every batch call of the run is made with the same kind
\* and the same subfolder option, on the same save_folder.
Init ==
    /\ arg = <<>>
    /\ res = <<>>
    /\ step = "none"
    /\ NoCall
    /\ kind \in Kinds
    /\ make_subfolder_per_ticker \in BOOLEAN
    /\ fs \in InitialDisks
    /\ fs0 = fs
    /\ dirs = UNION {Ancestors(SubSeq(p, 1, rfind(p, "/") - 1)) : p \in DOMAIN fs}

Next ==
    \/ \E t \in BatchInputs : BatchCall(t)
    \/ EnterOk
    \/ EnterFail
    \/ GetCikOk
    \/ GetCikFail
    \/ \E sub \in Subs : GetInfoOk(sub)
    \/ GetInfoFail
    \/ SelectTarget
    \/ DownloadOk
    \/ DownloadFail
    \/ WriteDocOk
    \/ WriteDocFail
    \/ WriteMetaOk
    \/ WriteMetaFail
    \/ Return
    \/ Except
    \/ BatchReturn

Spec == Init /\ [][Next]_vars

-----------------------------------------------------------------------------
(* What the claims about the batch speak of.                               *)

ValidKinds == {"primary_html", "full_submission_zip"}

Requests == {"req_registry", "req_history", "req_download"}

Writes == {"write_doc", "write_meta"}

\* The ticker of the normalized list whose fetch is over.
Finished(t) == t \in DOMAIN results.saved \cup DOMAIN results.failed

\* What the batch call did for ticker t, in order.
EventsOf(t) ==
    LET Mine(e) == e.t = t IN SelectSeq(log, Mine)

Evs(t) == [i \in 1..Len(EventsOf(t)) |-> EventsOf(t)[i].ev]

IsPrefix(a, b) == Len(a) <= Len(b) /\ \A i \in 1..Len(a) : a[i] = b[i]

\* C1: once batch_download_10k has returned, every ticker of the normalized list
\* is a key of exactly one of saved and failed: the key sets are disjoint, their
\* union is the list, and the two sizes add up to the length of the list.
C1_SavedFailedPartition ==
    pc = "done" =>
        /\ DOMAIN results.saved \cap DOMAIN results.failed = {}
        /\ DOMAIN results.saved \cup DOMAIN results.failed = Range(tickers_list)
        /\ Cardinality(DOMAIN results.saved) + Cardinality(DOMAIN results.failed)
              = Len(tickers_list)

\* A batch of two tickers has returned, one saved and one failed.
C1_Witness ==
    /\ pc = "done"
    /\ Len(tickers_list) = 2
    /\ Cardinality(DOMAIN results.saved) = 1
    /\ Cardinality(DOMAIN results.failed) = 1

\* C2: with a kind that is neither primary_html nor full_submission_zip the call
\* makes no request to the registry, the filing history or the document archive.
C2_InvalidKindBeforeAnyRequest ==
    kind \notin ValidKinds => \A i \in 1..Len(log) : log[i].ev \notin Requests

\* The path _unique_path gives for path on a disk whose existing paths are E.
FreeOn(E, path) ==
    IF path \notin E THEN path
    ELSE Numbered(path, Least({n \in 1..(Cardinality(E) + 1) : Numbered(path, n) \notin E}))

\* The outcome of ticker t from its own answers alone: what the upstream and the
\* disk answered to its fetch (a), the arguments of the call and the disk as it was
\* when the batch began.
OutcomeAlone(t, a) ==
    LET tk == upper(strip(t))
        folder == resolve_folder(SaveFolder, tk, make_subfolder_per_ticker)
        E == DOMAIN fs0 \cup dirs
        c == get_cik_from_ticker(Registry, tk)
        inf == get_latest_annual_info(a[3].data, c.val, preferred_forms_default)
        tgt == select_target(tk, c.val, inf.val, kind)
        doc == FreeOn(E, join(folder, tgt.filename))
        meta == FreeOn(E \cup {doc}, join(folder, meta_filename(tk, inf.val)))
        Failed(m) == [saved |-> FALSE, val |-> m]
    IN  IF ~a[1].ok THEN Failed(<<"makedirs: ">> \o folder)
        ELSE IF ~a[2].ok THEN Failed(<<"registry">>)
        ELSE IF ~c.ok THEN Failed(c.exc.msg)
        ELSE IF ~a[3].ok THEN Failed(<<"submissions">>)
        ELSE IF ~inf.ok THEN Failed(inf.exc.msg)
        ELSE IF ~tgt.ok THEN Failed(tgt.exc.msg)
        ELSE IF ~a[4].ok THEN Failed(<<"archive">>)
        ELSE IF ~a[5].ok THEN Failed(<<"open: ">> \o doc)
        ELSE IF ~a[6].ok THEN Failed(<<"open: ">> \o meta)
        ELSE [saved |-> TRUE, val |-> doc]

\* C3: no failure of one ticker leaves the batch call or stops it: an exception in
\* flight is always on its way to the handler, and once the call has returned no
\* exception is left, every ticker of the list was attempted once and in order,
\* and each ticker's entry (saved with its path, or failed with the error's string)
\* is what its own answers give, whatever happened to the other tickers.
C3_FailureIsolated ==
    /\ exc # NoExc => pc = "raised"
    /\ pc = "done" =>
         /\ SelectSeq([i \in 1..Len(log) |-> IF log[i].ev = "makedirs" THEN log[i].t ELSE <<>>],
                      NonEmpty) = tickers_list
         /\ \A t \in Range(tickers_list) :
              LET o == OutcomeAlone(t, resp[t])
              IN  IF o.saved
                  THEN /\ t \in DOMAIN results.saved
                       /\ t \notin DOMAIN results.failed
                       /\ results.saved[t] = o.val
                  ELSE /\ t \in DOMAIN results.failed
                       /\ t \notin DOMAIN results.saved
                       /\ results.failed[t] = o.val

\* The unknown ticker Z before the known ticker A: Z is only in failed, with the
\* not-found message, and A, attempted after it, is saved.
C3_Witness ==
    /\ pc = "done"
    /\ tickers_list = <<<<"Z">>, <<"A">>>>
    /\ <<"Z">> \in DOMAIN results.failed
    /\ results.failed[<<"Z">>][1] = "Ticker not found in SEC mapping: "
    /\ <<"A">> \in DOMAIN results.saved
    /\ DOMAIN results.failed = {<<"Z">>}

\* The steps of one fetch, in the order of the code.
FetchOrder ==
    <<"makedirs", "req_registry", "req_history", "sleep", "req_download", "write_doc",
      "write_meta">>

Body(evs) ==
    IF evs # <<>> /\ evs[Len(evs)] \in {"return", "raise"}
    THEN SubSeq(evs, 1, Len(evs) - 1)
    ELSE evs

Count(evs, ev) == Cardinality({i \in 1..Len(evs) : evs[i] = ev})

WritesIn(l) == {i \in 1..Len(l) : l[i].ev \in Writes}

\* C9: no step replaces or removes a file that exists; every file written by the
\* batch went to a path that was free, so the disk is the disk the batch began on,
\* unchanged, plus one new file per write; a fetch that returns has added exactly
\* two files, document and sidecar, at two different paths.
C9_NoOverwrite ==
    /\ [][\A p \in DOMAIN fs : p \in DOMAIN fs' /\ fs'[p] = fs[p]]_vars
    /\ [](/\ \A p \in DOMAIN fs0 : p \in DOMAIN fs /\ fs[p] = fs0[p]
          /\ DOMAIN fs = DOMAIN fs0 \cup {log[i].path : i \in WritesIn(log)}
          /\ Cardinality(DOMAIN fs) = Cardinality(DOMAIN fs0) + Cardinality(WritesIn(log))
          /\ \A i \in WritesIn(log) : log[i].path \notin DOMAIN fs0
          /\ pc = "return" =>
               /\ out_path # meta_path
               /\ Count(Evs(Cur), "write_doc") = 1
               /\ Count(Evs(Cur), "write_meta") = 1
               /\ fs[out_path] = Document(url)
               /\ fs[meta_path] = MetaJson(info))

\* The filing whose document and sidecar an earlier run left on disk is fetched
\* again, twice: the third copy goes to the paths numbered 2.
C9_Witness ==
    /\ pc = "return"
    /\ fs0 # EmptyMap
    /\ Cardinality(DOMAIN fs) = 6
    /\ out_path = <<"S", "/", "A", "/", "A">> \o Lit10K \o <<"2", "3", "_", "2", ".", "h">>
    /\ meta_path = <<"S", "/", "A", "/", "A">> \o Lit10K \o <<"2", "3", "_", "m", "e", "t", "a",
                                                              "_", "2", ".", "j", "s", "o", "n">>

\* C10: a ticker is in saved only after its document and then its sidecar were
\* written, and the path recorded is the document's; download_latest_10k is about
\* to return only with both files on disk.
C10_SavedAfterBothWrites ==
    /\ \A t \in DOMAIN results.saved :
         \E i, j \in 1..Len(log) :
            /\ i < j
            /\ log[i] = [t |-> t, ev |-> "write_doc", path |-> results.saved[t]]
            /\ log[j].t = t /\ log[j].ev = "write_meta"
            /\ log[j].path # results.saved[t]
            /\ results.saved[t] \in DOMAIN fs /\ fs[results.saved[t]][1] = "doc"
            /\ log[j].path \in DOMAIN fs /\ fs[log[j].path][1] = "meta"
    /\ pc = "return" =>
         /\ out_path \in DOMAIN fs /\ meta_path \in DOMAIN fs
         /\ Evs(Cur) = FetchOrder

\* The converse fails: A is saved, and B is in failed because its sidecar could not
\* be written, while B's document is on disk.
C10_Witness ==
    /\ pc = "done"
    /\ <<"A">> \in DOMAIN results.saved
    /\ <<"B">> \in DOMAIN results.failed
    /\ \E i \in 1..Len(log) :
          /\ log[i].t = <<"B">> /\ log[i].ev = "write_doc"
          /\ log[i].path \in DOMAIN fs
    /\ ~\E i \in 1..Len(log) : log[i].t = <<"B">> /\ log[i].ev = "write_meta"

====
